---- MODULE Spec2Model ----
(***************************************************************************)
(* Nexus Channel origin command tokens (channel_origin_commands.py).      *)
(*                                                                         *)
(* Representation.  A Python int is a little-endian sequence of bytes     *)
(* (base-256 digits) with no leading zero byte, so that 2^32 and 2^48 are  *)
(* exact.  A Python str of decimal characters is a sequence of digit       *)
(* values 0..9, most significant first.  A byte string is a sequence of    *)
(* bytes 0..255.                                                           *)
(***************************************************************************)
EXTENDS Integers, Sequences, FiniteSets, TLC

(***************************************************************************)
(* Integers as little-endian byte sequences                                *)
(***************************************************************************)

RECURSIVE Norm(_)
\* canonical form of an int: trailing (most significant) zero bytes removed
Norm(b) ==
    IF b = <<>> THEN <<>>
    ELSE IF b[Len(b)] = 0 THEN Norm(SubSeq(b, 1, Len(b) - 1))
    ELSE b

RECURSIVE IntToBytes(_)
\* a small natural number as a canonical byte sequence
IntToBytes(n) ==
    IF n = 0 THEN <<>> ELSE <<n % 256>> \o IntToBytes(n \div 256)

\* byte i of an int, zero above its most significant byte
ByteAt(b, i) == IF i <= Len(b) THEN b[i] ELSE 0

RECURSIVE FixWidthFrom(_, _, _)
FixWidthFrom(b, i, k) ==
    IF i > k THEN <<>> ELSE <<ByteAt(b, i)>> \o FixWidthFrom(b, i + 1, k)

\* b zero-extended or cut to exactly k bytes
FixWidth(b, k) == FixWidthFrom(b, 1, k)

\* x & 0xFFFFFFFF
Low32(x) == Norm(FixWidth(x, 4))

\* variant: the mask 0xFFFF applied without the shift by 32
Authority16_low(x) == Norm(<<ByteAt(x, 1), ByteAt(x, 2)>>)

\* (x & 0xFFFF00000000) >> 32
Authority16(x) == Norm(<<ByteAt(x, 5), ByteAt(x, 6)>>)

RECURSIVE DivMod10(_, _, _)
\* long division by ten of the bytes b[1..i] (b[i] most significant), rem
\* carried in from above: <<quotient bytes, remainder>>
DivMod10(b, i, rem) ==
    IF i = 0 THEN <<(<<>>), rem>>
    ELSE LET cur  == rem * 256 + b[i]
             rest == DivMod10(b, i - 1, cur % 10)
         IN  <<rest[1] \o <<cur \div 10>>, rest[2]>>

RECURSIVE Decimal(_)
\* str(x) of a non-negative int: its decimal digits, "0" for zero
Decimal(x) ==
    LET n  == Norm(x)
        qr == DivMod10(n, Len(n), 0)
    IN  IF Norm(qr[1]) = <<>> THEN <<qr[2]>>
        ELSE Decimal(qr[1]) \o <<qr[2]>>

RECURSIVE Zeros(_)
Zeros(n) == IF n <= 0 THEN <<>> ELSE <<0>> \o Zeros(n - 1)

\* "{:0<width>d}".format(x): zero-padded on the left to at least width
FormatZeroPad(x, width) ==
    LET d == Decimal(x)
    IN  IF Len(d) >= width THEN d
        ELSE Zeros(width - Len(d)) \o d

\* s[-n:] for n >= 1
LastChars(s, n) ==
    IF n >= Len(s) THEN s ELSE SubSeq(s, Len(s) - n + 1, Len(s))

RECURSIVE MulAdd10(_, _, _)
\* b * 10 + carry over bytes b[i..]
MulAdd10(b, i, carry) ==
    IF i > Len(b) THEN IntToBytes(carry)
    ELSE LET cur == b[i] * 10 + carry
         IN  <<cur % 256>> \o MulAdd10(b, i + 1, cur \div 256)

RECURSIVE ParseInt(_, _)
\* int(s) of a decimal string s, acc the value of the characters read so far
ParseInt(s, acc) ==
    IF s = <<>> THEN Norm(acc)
    ELSE ParseInt(Tail(s), MulAdd10(acc, 1, Head(s)))

(***************************************************************************)
(* SipHash-2-4 over 64-bit words held as 8 little-endian bytes             *)
(***************************************************************************)

\* bit i of a ^ b, in place
XorBit(a, b, i) == ((((a \div (2 ^ i)) % 2) + ((b \div (2 ^ i)) % 2)) % 2) * (2 ^ i)

\* a ^ b of two bytes
ByteXor(a, b) ==
    ((XorBit(a, b, 0) + XorBit(a, b, 1)) + (XorBit(a, b, 2) + XorBit(a, b, 3)))
    + ((XorBit(a, b, 4) + XorBit(a, b, 5)) + (XorBit(a, b, 6) + XorBit(a, b, 7)))

\* the word whose byte i is f[i]
Word(f) == <<f[1], f[2], f[3], f[4], f[5], f[6], f[7], f[8]>>

\* x ^ y
WordXor(x, y) == Word([i \in 1..8 |-> ByteXor(x[i], y[i])])

\* bytes i, i+1, i+2 of x as a number below 2^24
Chunk(x, i) == x[i] + (256 * x[i + 1]) + (65536 * x[i + 2])

\* the three bytes of n mod 2^24
Bytes3(n) == <<n % 256, (n \div 256) % 256, (n \div 65536) % 256>>

\* x + y over bytes 1..3, and over bytes 4..6 and 7..8 with the carry in
SumLow(x, y) == Chunk(x, 1) + Chunk(y, 1)
SumMid(x, y) == Chunk(x, 4) + Chunk(y, 4) + (SumLow(x, y) \div 16777216)
SumHigh(x, y) ==
    x[7] + (256 * x[8]) + y[7] + (256 * y[8]) + (SumMid(x, y) \div 16777216)

\* (x + y) mod 2^64
WordAdd(x, y) ==
    <<x, y, Bytes3(SumLow(x, y)) \o Bytes3(SumMid(x, y))
            \o <<SumHigh(x, y) % 256, (SumHigh(x, y) \div 256) % 256>> >>[3]

\* x rotated left by 8*q + s bits
WordRotl(x, q, s) ==
    Word([i \in 1..8 |->
            ((x[((i - 1 - q) % 8) + 1] * (2 ^ s)) % 256)
            + (x[((i - 2 - q) % 8) + 1] \div (2 ^ (8 - s)))])

\* v0 += v1; v2 += v3; v1 = rotl(v1, 13) ^ v0; v3 = rotl(v3, 16) ^ v2;
\* v0 = rotl(v0, 32)
FirstHalf(v) ==
    <<v, << WordRotl(WordAdd(v[1], v[2]), 4, 0),
            WordXor(WordRotl(v[2], 1, 5), WordAdd(v[1], v[2])),
            WordAdd(v[3], v[4]),
            WordXor(WordRotl(v[4], 2, 0), WordAdd(v[3], v[4])) >> >>[2]

\* v2 += v1; v0 += v3; v1 = rotl(v1, 17) ^ v2; v3 = rotl(v3, 21) ^ v0;
\* v2 = rotl(v2, 32)
SecondHalf(v) ==
    <<v, << WordAdd(v[1], v[4]),
            WordXor(WordRotl(v[2], 2, 1), WordAdd(v[3], v[2])),
            WordRotl(WordAdd(v[3], v[2]), 4, 0),
            WordXor(WordRotl(v[4], 2, 5), WordAdd(v[1], v[4])) >> >>[2]

\* one SipRound
SipRound(v) == SecondHalf(FirstHalf(v))

\* the two compression rounds, the first computed before the second
TwoRounds(v) ==
    LET r1 == SipRound(v)
    IN  <<r1, SipRound(r1)>>[2]

\* the four finalization rounds, each computed before the next
FourRounds(v) ==
    LET r1 == SipRound(v)
        r2 == SipRound(r1)
        r3 == SipRound(r2)
    IN  <<r1, r2, r3, SipRound(r3)>>[4]

\* v3 ^= m
AbsorbBefore(v, m) == <<v[1], v[2], v[3], WordXor(v[4], m)>>

\* v0 ^= m
AbsorbAfter(w, m) == <<w, <<WordXor(w[1], m), w[2], w[3], w[4]>> >>[2]

\* one message block: v3 ^= m, two rounds, v0 ^= m
SipCompress(v, m) == AbsorbAfter(TwoRounds(AbsorbBefore(v, m)), m)

\* the 8-byte block at byte offset `at`; the last block is the remaining
\* bytes, zero-padded, with len mod 256 in its top byte
Block(msg, at) ==
    IF Len(msg) - at >= 8
    THEN SubSeq(msg, at + 1, at + 8)
    ELSE FixWidth(SubSeq(msg, at + 1, Len(msg)), 7) \o <<Len(msg) % 256>>

RECURSIVE SipBlocks(_, _, _)
\* the state v after the message blocks from byte offset `at` on
SipBlocks(v, msg, at) ==
    <<v, IF at > Len(msg) THEN v
         ELSE SipBlocks(SipCompress(v, Block(msg, at)), msg, at + 8) >>[2]

\* the initial state: the key halves xored into "somepseudorandomlygeneratedbytes"
SipInit(k0, k1) ==
    << WordXor(k0, <<117, 101, 115, 112, 101, 109, 111, 115>>),
       WordXor(k1, <<109, 111, 100, 110, 97, 114, 111, 100>>),
       WordXor(k0, <<97, 114, 101, 110, 101, 103, 121, 108>>),
       WordXor(k1, <<115, 101, 116, 121, 98, 100, 101, 116>>) >>

\* v2 ^= 0xff
MarkFinal(w) == <<w[1], w[2], WordXor(w[3], <<255, 0, 0, 0, 0, 0, 0, 0>>), w[4]>>

\* v0 ^ v1 ^ v2 ^ v3
XorAll(f) == <<f, WordXor(WordXor(f[1], f[2]), WordXor(f[3], f[4]))>>[2]

\* v2 ^= 0xff, four rounds, v0 ^ v1 ^ v2 ^ v3
SipFinal(w) == <<w, XorAll(FourRounds(MarkFinal(w)))>>[2]

\* siphash.SipHash_2_4(key, msg).hash(): the 64-bit tag, as an int
SipHash_2_4(key, msg) ==
    Norm(SipFinal(SipBlocks(SipInit(SubSeq(key, 1, 8), SubSeq(key, 9, 16)),
                            msg, 0)))

(***************************************************************************)
(* Bounds and sample inputs                                                *)
(***************************************************************************)

\* largest `digits` argument given to digits_from_siphash
MaxDigits == 11

\* number of obfuscation transforms tried by to_digits(obscured=True)
MaxObscureSeed == 2

\* required length of a symmetric key, in bytes
KeyLen == 16

\* default number of digits taken from a tag
DefaultDigits == 6

RECURSIVE Ramp(_, _)
\* the bytes from, from+1, ..., n-1
Ramp(from, n) == IF from >= n THEN <<>> ELSE <<from>> \o Ramp(from + 1, n)

\* symmetric keys: two of 16 bytes, one of 15 and one of 17
Keys == { Zeros(16), Ramp(0, 16), Ramp(0, 15), Ramp(0, 17) }

\* command counters: 1, 256, 2^32 - 1, 2^32, 2^32 + 1
Counters ==
    { <<1>>, <<0, 1>>, <<255, 255, 255, 255>>, <<0, 0, 0, 0, 1>>, <<1, 0, 0, 0, 1>> }

\* accessory Nexus ids: 5, 6, 15, 2^32, 2^32 + 5, 2^48 - 1, 2^48 + 5
NexusIds ==
    { <<5>>, <<6>>, <<15>>, <<0, 0, 0, 0, 1>>, <<5, 0, 0, 0, 1>>,
      <<255, 255, 255, 255, 255, 255>>, <<5, 0, 0, 0, 0, 0, 1>> }

\* 64-bit tags: 0, 7, 2^32 - 1, 2^32, 2^32 + 123456, 2^64 - 1, 0x0123456789abcdef
Tags ==
    { <<>>, <<7>>, <<255, 255, 255, 255>>, <<0, 0, 0, 0, 1>>,
      <<64, 226, 1, 0, 1>>, <<255, 255, 255, 255, 255, 255, 255, 255>>,
      <<239, 205, 171, 137, 103, 69, 35, 1>> }

(***************************************************************************)
(* Enumerations                                                            *)
(***************************************************************************)

ChannelOriginAction ==
    { "UNLINK_ALL_ACCESSORIES", "UNLOCK_ALL_ACCESSORIES", "UNLOCK_ACCESSORY",
      "UNLINK_ACCESSORY", "LINK_ACCESSORY_MODE_3" }

Member(cls, value) == [cls |-> cls, value |-> value]

GENERIC_CONTROLLER_ACTION == Member("OriginCommandType", 0)
UNLOCK_ACCESSORY == Member("OriginCommandType", 1)
UNLINK_ACCESSORY == Member("OriginCommandType", 2)
LINK_ACCESSORY_MODE_3 == Member("OriginCommandType", 9)

OriginCommandType ==
    { GENERIC_CONTROLLER_ACTION, UNLOCK_ACCESSORY, UNLINK_ACCESSORY,
      LINK_ACCESSORY_MODE_3 }

UNLINK_ALL_ACCESSORIES == Member("GenericControllerActionType", 0)
UNLOCK_ALL_ACCESSORIES == Member("GenericControllerActionType", 1)

GenericControllerActionType == { UNLINK_ALL_ACCESSORIES, UNLOCK_ALL_ACCESSORIES }

\* values a caller can hand to a constructor as type_: the members of both
\* enumerations and the plain ints 0 and 3
TypeArgs ==
    OriginCommandType \cup GenericControllerActionType
    \cup { Member("int", 0), Member("int", 3) }

(***************************************************************************)
(* ChannelOriginCommandToken                                               *)
(***************************************************************************)

NoToken == [type_code |-> -1, body |-> <<>>, auth |-> <<>>]

\* what a call returns: the exception raised ("none" if it returned), the
\* token returned, the byte strings packed and the (key, message) pairs hashed
Returned(token, packed, hashed) ==
    [err |-> "none", token |-> token, packed |-> packed, hashed |-> hashed]

Raised(err, packed, hashed) ==
    [err |-> err, token |-> NoToken, packed |-> packed, hashed |-> hashed]

ChannelOriginCommandToken_init(type_, body, auth) ==
    IF type_.cls # "OriginCommandType"
    THEN Raised("TypeError", <<>>, <<>>)
    ELSE Returned([type_code |-> type_.value, body |-> body, auth |-> auth],
                  <<>>, <<>>)

\* variant: the formatted number returned whole, without the [-digits:] slice
digits_from_siphash_noslice(tag, digits) ==
    FormatZeroPad(Low32(tag), digits)

\* variant: the tag formatted without the & 0xffffffff mask
digits_from_siphash_nomask(tag, digits) ==
    LastChars(FormatZeroPad(tag, digits), digits)

\* hash = siphash_function.hash(); hash &= 0xffffffff;
\* "{:0<digits>d}".format(hash)[-digits:]
digits_from_siphash(tag, digits) ==
    <<tag, LastChars(FormatZeroPad(Low32(tag), digits), digits)>>[2]

\* nexus_keycode.protocols.utils.full_obscure: a length-preserving transform
\* of the first obscured_digit_count characters; seed selects the transform
full_obscure(digits, obscured_digit_count, seed) ==
    [i \in 1..Len(digits) |->
        IF i <= obscured_digit_count
        THEN (digits[i] + seed + i) % 10
        ELSE digits[i]]

\* variant: the whole string, auth included, given to full_obscure
to_digits_obscure_all(self, obscured, seed) ==
    LET result == Decimal(IntToBytes(self.type_code)) \o self.body \o self.auth
    IN  IF obscured
        THEN [digits |-> full_obscure(result, Len(result), seed),
              obscured_digit_count |-> Len(result)]
        ELSE [digits |-> result, obscured_digit_count |-> -1]

\* the serialized token and the digit count given to full_obscure (-1: none)
to_digits(self, obscured, seed) ==
    LET result == Decimal(IntToBytes(self.type_code)) \o self.body \o self.auth
        obscured_digit_count == Len(result) - Len(self.auth)
    IN  IF obscured
        THEN [digits |-> full_obscure(result, obscured_digit_count, seed),
              obscured_digit_count |-> obscured_digit_count]
        ELSE [digits |-> result, obscured_digit_count |-> -1]

(***************************************************************************)
(* bitstring.pack of "uintle:<bits>=name" fields                           *)
(***************************************************************************)

Field(bits, value) == [bits |-> bits, value |-> value]

\* a value too large for its field makes bitstring raise CreationError
Fits(f) == Len(Norm(f.value)) * 8 <= f.bits

RECURSIVE PackBytes(_)
PackBytes(fields) ==
    IF fields = <<>> THEN <<>>
    ELSE FixWidth(Head(fields).value, Head(fields).bits \div 8)
         \o PackBytes(Tail(fields))

pack(fields) ==
    IF \A i \in 1..Len(fields) : Fits(fields[i])
    THEN [ok |-> TRUE, bytes |-> PackBytes(fields)]
    ELSE [ok |-> FALSE, bytes |-> <<>>]

Hashed(key, msg) == [key |-> key, msg |-> msg]

(***************************************************************************)
(* GenericControllerActionToken                                            *)
(***************************************************************************)

GenericControllerActionToken_init(type_, controller_command, auth) ==
    ChannelOriginCommandToken_init(
        GENERIC_CONTROLLER_ACTION, controller_command,
        digits_from_siphash(auth, DefaultDigits))

\* variant: the key length checked after the inputs are packed
generic_controller_action_builder_pack_first(type_, controller_command_count, controller_sym_key) ==
    LET packed_target_inputs == pack(<<
            Field(32, controller_command_count),
            Field(8, IntToBytes(GENERIC_CONTROLLER_ACTION.value)),
            Field(32, IntToBytes(type_.value)) >>)
    IN  IF ~packed_target_inputs.ok
        THEN Raised("CreationError", <<>>, <<>>)
        ELSE IF Len(controller_sym_key) # KeyLen
        THEN Raised("AssertionError", <<packed_target_inputs.bytes>>, <<>>)
        ELSE
        LET auth == SipHash_2_4(controller_sym_key, packed_target_inputs.bytes)
        IN  [GenericControllerActionToken_init(
                 type_, FormatZeroPad(IntToBytes(type_.value), 2), auth)
             EXCEPT
                !.packed = <<packed_target_inputs.bytes>>,
                !.hashed = <<Hashed(controller_sym_key,
                                    packed_target_inputs.bytes)>>]

generic_controller_action_builder(type_, controller_command_count, controller_sym_key) ==
    IF Len(controller_sym_key) # KeyLen
    THEN Raised("AssertionError", <<>>, <<>>)
    ELSE
    LET controller_command_value == IntToBytes(type_.value)
        packed_target_inputs == pack(<<
            Field(32, controller_command_count),
            Field(8, IntToBytes(GENERIC_CONTROLLER_ACTION.value)),
            Field(32, controller_command_value) >>)
    IN  IF ~packed_target_inputs.ok
        THEN Raised("CreationError", <<>>, <<>>)
        ELSE IF Len(packed_target_inputs.bytes) # 9
        THEN Raised("AssertionError", <<packed_target_inputs.bytes>>, <<>>)
        ELSE
        LET auth == SipHash_2_4(controller_sym_key, packed_target_inputs.bytes)
        IN  [GenericControllerActionToken_init(
                 type_, FormatZeroPad(controller_command_value, 2), auth)
             EXCEPT
                !.packed = <<packed_target_inputs.bytes>>,
                !.hashed = <<Hashed(controller_sym_key,
                                    packed_target_inputs.bytes)>>]

unlink_all_accessories(controller_command_count, controller_sym_key) ==
    generic_controller_action_builder(
        UNLINK_ALL_ACCESSORIES, controller_command_count, controller_sym_key)

unlock_all_accessories(controller_command_count, controller_sym_key) ==
    generic_controller_action_builder(
        UNLOCK_ALL_ACCESSORIES, controller_command_count, controller_sym_key)

(***************************************************************************)
(* SpecificLinkedAccessoryToken                                            *)
(***************************************************************************)

\* x % 10
Mod10(x) == DivMod10(Norm(x), Len(Norm(x)), 0)[2]

\* variant: the body digit taken from the whole id, without & 0xFFFFFFFF
SpecificLinkedAccessoryToken_init_nomask(type_, accessory_nexus_id, auth) ==
    ChannelOriginCommandToken_init(
        type_, FormatZeroPad(IntToBytes(Mod10(accessory_nexus_id)), 1),
        digits_from_siphash(auth, DefaultDigits))

SpecificLinkedAccessoryToken_init(type_, accessory_nexus_id, auth) ==
    LET truncated_accessory_nexus_id ==
            FormatZeroPad(IntToBytes(Mod10(Low32(accessory_nexus_id))), 1)
    IN  ChannelOriginCommandToken_init(
            type_, truncated_accessory_nexus_id,
            digits_from_siphash(auth, DefaultDigits))

specific_accessory_builder(type_, accessory_nexus_id, controller_command_count, controller_sym_key) ==
    IF Len(controller_sym_key) # KeyLen
    THEN Raised("AssertionError", <<>>, <<>>)
    ELSE
    LET nexus_authority_id == Authority16(accessory_nexus_id)
        nexus_device_id == Low32(accessory_nexus_id)
        packed_target_inputs == pack(<<
            Field(32, controller_command_count),
            Field(8, IntToBytes(type_.value)),
            Field(16, nexus_authority_id),
            Field(32, nexus_device_id) >>)
    IN  IF ~packed_target_inputs.ok
        THEN Raised("CreationError", <<>>, <<>>)
        ELSE IF Len(packed_target_inputs.bytes) # 11
        THEN Raised("AssertionError", <<packed_target_inputs.bytes>>, <<>>)
        ELSE
        LET auth == SipHash_2_4(controller_sym_key, packed_target_inputs.bytes)
        IN  [SpecificLinkedAccessoryToken_init(type_, accessory_nexus_id, auth)
             EXCEPT
                !.packed = <<packed_target_inputs.bytes>>,
                !.hashed = <<Hashed(controller_sym_key,
                                    packed_target_inputs.bytes)>>]

unlink_specific_accessory(accessory_nexus_id, controller_command_count, controller_sym_key) ==
    specific_accessory_builder(
        UNLINK_ACCESSORY, accessory_nexus_id, controller_command_count,
        controller_sym_key)

unlock_specific_accessory(accessory_nexus_id, controller_command_count, controller_sym_key) ==
    specific_accessory_builder(
        UNLOCK_ACCESSORY, accessory_nexus_id, controller_command_count,
        controller_sym_key)

(***************************************************************************)
(* LinkCommandToken                                                        *)
(***************************************************************************)

\* variant: body and auth handed to the base class in the wrong order
LinkCommandToken_init_swapped(type_, body, auth) ==
    ChannelOriginCommandToken_init(type_, auth, body)

LinkCommandToken_init(type_, body, auth) ==
    ChannelOriginCommandToken_init(type_, body, auth)

\* the second stage of challenge_mode_3: the token authenticated under the
\* controller key, from the digits the accessory key gave in the first stage
challenge_mode_3_auth(command_type, controller_command_count, controller_sym_key, accessory_auth_digits, stage1_packed, stage1_hashed) ==
    LET packed_auth_inputs == pack(<<
            Field(32, controller_command_count),
            Field(8, IntToBytes(command_type.value)),
            Field(32, ParseInt(accessory_auth_digits, <<>>)) >>)
    IN  IF ~packed_auth_inputs.ok
        THEN Raised("CreationError", stage1_packed, stage1_hashed)
        ELSE IF Len(packed_auth_inputs.bytes) # 9
        THEN Raised("AssertionError",
                    stage1_packed \o <<packed_auth_inputs.bytes>>,
                    stage1_hashed)
        ELSE
        LET auth == SipHash_2_4(controller_sym_key, packed_auth_inputs.bytes)
        IN  [LinkCommandToken_init(
                 command_type, accessory_auth_digits,
                 digits_from_siphash(auth, DefaultDigits))
             EXCEPT
                !.packed = stage1_packed \o <<packed_auth_inputs.bytes>>,
                !.hashed = stage1_hashed
                           \o <<Hashed(controller_sym_key,
                                       packed_auth_inputs.bytes)>>]

challenge_mode_3(controller_command_count, accessory_command_count, accessory_sym_key, controller_sym_key) ==
    LET command_type == LINK_ACCESSORY_MODE_3 IN
    IF Len(accessory_sym_key) # KeyLen
    THEN Raised("AssertionError", <<>>, <<>>)
    ELSE IF Len(controller_sym_key) # KeyLen
    THEN Raised("AssertionError", <<>>, <<>>)
    ELSE
    LET packed_target_inputs == pack(<<Field(32, accessory_command_count)>>)
    IN  IF ~packed_target_inputs.ok
        THEN Raised("CreationError", <<>>, <<>>)
        ELSE IF Len(packed_target_inputs.bytes) # 4
        THEN Raised("AssertionError", <<packed_target_inputs.bytes>>, <<>>)
        ELSE
        LET accessory_auth ==
                SipHash_2_4(accessory_sym_key, packed_target_inputs.bytes)
            accessory_auth_digits ==
                digits_from_siphash(accessory_auth, DefaultDigits)
        IN  challenge_mode_3_auth(
                command_type, controller_command_count, controller_sym_key,
                accessory_auth_digits,
                <<packed_target_inputs.bytes>>,
                <<Hashed(accessory_sym_key, packed_target_inputs.bytes)>>)

(***************************************************************************)
(* ChannelOriginAction.build                                               *)
(***************************************************************************)

\* variant: the two generic actions dispatched to each other's builder
build_swapped(self, kwargs) ==
    CASE self = "UNLINK_ALL_ACCESSORIES" ->
            unlock_all_accessories(
                kwargs.controller_command_count, kwargs.controller_sym_key)
      [] self = "UNLOCK_ALL_ACCESSORIES" ->
            unlink_all_accessories(
                kwargs.controller_command_count, kwargs.controller_sym_key)
      [] self = "UNLOCK_ACCESSORY" ->
            unlock_specific_accessory(
                kwargs.accessory_nexus_id, kwargs.controller_command_count,
                kwargs.controller_sym_key)
      [] self = "UNLINK_ACCESSORY" ->
            unlink_specific_accessory(
                kwargs.accessory_nexus_id, kwargs.controller_command_count,
                kwargs.controller_sym_key)
      [] self = "LINK_ACCESSORY_MODE_3" ->
            challenge_mode_3(
                kwargs.controller_command_count, kwargs.accessory_command_count,
                kwargs.accessory_sym_key, kwargs.controller_sym_key)

build(self, kwargs) ==
    CASE self = "UNLINK_ALL_ACCESSORIES" ->
            unlink_all_accessories(
                kwargs.controller_command_count, kwargs.controller_sym_key)
      [] self = "UNLOCK_ALL_ACCESSORIES" ->
            unlock_all_accessories(
                kwargs.controller_command_count, kwargs.controller_sym_key)
      [] self = "UNLOCK_ACCESSORY" ->
            unlock_specific_accessory(
                kwargs.accessory_nexus_id, kwargs.controller_command_count,
                kwargs.controller_sym_key)
      [] self = "UNLINK_ACCESSORY" ->
            unlink_specific_accessory(
                kwargs.accessory_nexus_id, kwargs.controller_command_count,
                kwargs.controller_sym_key)
      [] self = "LINK_ACCESSORY_MODE_3" ->
            challenge_mode_3(
                kwargs.controller_command_count, kwargs.accessory_command_count,
                kwargs.accessory_sym_key, kwargs.controller_sym_key)

\* the keyword arguments each action's builder takes
KwargsOf(self) ==
    IF self \in {"UNLINK_ALL_ACCESSORIES", "UNLOCK_ALL_ACCESSORIES"}
    THEN [controller_command_count : Counters, controller_sym_key : Keys]
    ELSE IF self \in {"UNLOCK_ACCESSORY", "UNLINK_ACCESSORY"}
    THEN [accessory_nexus_id : NexusIds, controller_command_count : Counters,
          controller_sym_key : Keys]
    ELSE [controller_command_count : Counters,
          accessory_command_count : Counters,
          accessory_sym_key : Keys, controller_sym_key : Keys]

\* the token classes and the constructor of each
TokenClasses ==
    { "ChannelOriginCommandToken", "GenericControllerActionToken",
      "SpecificLinkedAccessoryToken", "LinkCommandToken" }

\* body strings handed to a constructor: "07" and "123456"
Bodies == { <<0, 7>>, <<1, 2, 3, 4, 5, 6>> }

\* auth strings handed to a constructor: "654321" and "4321"
Auths == { <<6, 5, 4, 3, 2, 1>>, <<4, 3, 2, 1>> }

\* cls(type_, second, auth): second and auth are the class's own arguments
CtorArgsOf(cls) ==
    IF cls = "GenericControllerActionToken"
    THEN [type_ : TypeArgs, second : Bodies, auth : {<<64, 226, 1, 0, 1>>}]
    ELSE IF cls = "SpecificLinkedAccessoryToken"
    THEN [type_ : TypeArgs, second : {<<5>>, <<0, 0, 0, 0, 1>>},
          auth : {<<64, 226, 1, 0, 1>>}]
    ELSE [type_ : TypeArgs, second : Bodies, auth : Auths]

construct(cls, a) ==
    CASE cls = "ChannelOriginCommandToken" ->
            ChannelOriginCommandToken_init(a.type_, a.second, a.auth)
      [] cls = "GenericControllerActionToken" ->
            GenericControllerActionToken_init(a.type_, a.second, a.auth)
      [] cls = "SpecificLinkedAccessoryToken" ->
            SpecificLinkedAccessoryToken_init(a.type_, a.second, a.auth)
      [] cls = "LinkCommandToken" ->
            LinkCommandToken_init(a.type_, a.second, a.auth)

(***************************************************************************)
(* State: the call in progress and what it returned                        *)
(***************************************************************************)

VARIABLES
    pc,     \* "idle", "built", "constructed", "serialized" or "extracted"
    op,     \* the action built, the class constructed, or "digits_from_siphash"
    args,   \* the arguments of the call
    ret,    \* what the builder or constructor returned or raised
    out     \* what to_digits or digits_from_siphash returned

vars == <<pc, op, args, ret, out>>

NoRet == Raised("none", <<>>, <<>>)
NoOut == [digits |-> <<>>, obscured |-> FALSE, obscured_digit_count |-> -1,
          seed |-> 0]

Init ==
    /\ pc = "idle"
    /\ op = "none"
    /\ args = <<>>
    /\ ret = NoRet
    /\ out = NoOut

\* ChannelOriginAction.<self>.build(**kwargs)
Build ==
    /\ pc = "idle"
    /\ \E self \in ChannelOriginAction : \E kwargs \in KwargsOf(self) :
          /\ op' = self
          /\ args' = kwargs
          /\ ret' = build(self, kwargs)
    /\ pc' = "built"
    /\ UNCHANGED out

\* <cls>(type_, ..., auth) called directly
Construct ==
    /\ pc = "idle"
    /\ \E cls \in TokenClasses : \E a \in CtorArgsOf(cls) :
          /\ op' = cls
          /\ args' = a
          /\ ret' = construct(cls, a)
    /\ pc' = "constructed"
    /\ UNCHANGED out

\* token.to_digits(obscured) on the token a call returned
ToDigits ==
    /\ pc \in {"built", "constructed"}
    /\ ret.err = "none"
    /\ \E obscured \in BOOLEAN :
       \E seed \in IF obscured THEN 1..MaxObscureSeed ELSE {0} :
          LET r == to_digits(ret.token, obscured, seed)
          IN  out' = [digits |-> r.digits, obscured |-> obscured,
                      obscured_digit_count |-> r.obscured_digit_count,
                      seed |-> seed]
    /\ pc' = "serialized"
    /\ UNCHANGED <<op, args, ret>>

\* ChannelOriginCommandToken.digits_from_siphash(siphash_function, digits)
DigitsFromSiphash ==
    /\ pc = "idle"
    /\ \E tag \in Tags : \E digits \in 1..MaxDigits :
          /\ args' = [tag |-> tag, digits |-> digits]
          /\ out' = [NoOut EXCEPT !.digits = digits_from_siphash(tag, digits)]
    /\ op' = "digits_from_siphash"
    /\ pc' = "extracted"
    /\ UNCHANGED ret

Next == Build \/ Construct \/ ToDigits \/ DigitsFromSiphash

Spec == Init /\ [][Next]_vars

(***************************************************************************)
(* Vocabulary of the properties                                            *)
(***************************************************************************)

IsDigits(str) == \A i \in 1..Len(str) : str[i] \in 0..9

\* x as exactly k little-endian bytes (x < 256^k)
Le(x, k) == [i \in 1..k |-> IF i <= Len(x) THEN x[i] ELSE 0]

\* x <= 2^32 - 1, x <= 2^48 - 1
InU32(x) == Len(Norm(x)) <= 4
InU48(x) == Len(Norm(x)) <= 6

Has(name) == name \in DOMAIN args

GenericActions == {"UNLINK_ALL_ACCESSORIES", "UNLOCK_ALL_ACCESSORIES"}
SpecificActions == {"UNLOCK_ACCESSORY", "UNLINK_ACCESSORY"}

\* a builder has been called through ChannelOriginAction.build
Built == pc \in {"built", "serialized"} /\ op \in ChannelOriginAction

\* some symmetric key of the call is not 16 bytes long
BadKey ==
    \/ Len(args.controller_sym_key) # KeyLen
    \/ Has("accessory_sym_key") /\ Len(args.accessory_sym_key) # KeyLen

\* some counter or identifier of the call exceeds its field width
Overflows ==
    \/ ~InU32(args.controller_command_count)
    \/ Has("accessory_command_count") /\ ~InU32(args.accessory_command_count)
    \/ Has("accessory_nexus_id") /\ ~InU48(args.accessory_nexus_id)

\* 16-byte keys, counters in 0..2^32-1, accessory id in 0..2^48-1
ValidCall == Built /\ ~BadKey /\ ~Overflows

\* the wire type code of the specific-accessory action
SpecificType(action) ==
    IF action = "UNLOCK_ACCESSORY" THEN UNLOCK_ACCESSORY ELSE UNLINK_ACCESSORY

\* type code, body and auth written one after the other
Plain(token) == <<token.type_code>> \o token.body \o token.auth

\* bytes i and i+1 of t as a number below 2^16
Half16(t, i) == ByteAt(t, i) + (256 * ByteAt(t, i + 1))

\* t mod 2^32 is TenThousands(t) * 10^4 + Units(t), by 2^16 = 6 * 10^4 + 5536
Units(t) == ((Half16(t, 3) * 5536) + Half16(t, 1)) % 10000
TenThousands(t) ==
    (Half16(t, 3) * 6) + (((Half16(t, 3) * 5536) + Half16(t, 1)) \div 10000)

\* (t mod 2^32) mod 10^n, as an int
LowDigitsValue(t, n) ==
    IF n >= 10 THEN Norm(Le(t, 4))
    ELSE IF n <= 4 THEN IntToBytes(Units(t) % (10 ^ n))
    ELSE IntToBytes(((TenThousands(t) % (10 ^ (n - 4))) * 10000) + Units(t))

(***************************************************************************)
(* C1: for valid inputs, to_digits(obscured=False) is all decimal digits   *)
(* and 9 characters long for the two generic actions, 8 for the two        *)
(* specific-accessory actions and 13 for the link challenge.               *)
(***************************************************************************)
TokenLength(action) ==
    IF action \in GenericActions THEN 9
    ELSE IF action \in SpecificActions THEN 8
    ELSE 13

C1_UnobscuredLength ==
    ValidCall =>
        /\ ret.err = "none"
        /\ (pc = "serialized" /\ ~out.obscured) =>
              /\ IsDigits(out.digits)
              /\ Len(out.digits) = TokenLength(op)

C1_Witness ==
    /\ ValidCall /\ pc = "serialized" /\ ~out.obscured
    /\ op = "LINK_ACCESSORY_MODE_3"
    /\ args.controller_command_count = <<255, 255, 255, 255>>
    /\ Len(out.digits) = 13

(***************************************************************************)
(* C2: to_digits(obscured=True) gives full_obscure the digit count         *)
(* 1 + len(body); the output keeps its length and its last len(auth)       *)
(* characters are those of the unobscured serialization; a token made by    *)
(* a builder has 6 auth characters.                                        *)
(***************************************************************************)
C2_AuthNotObscured ==
    (pc = "serialized" /\ out.obscured) =>
        LET plain == Plain(ret.token)
            n == Len(ret.token.auth)
        IN  /\ out.obscured_digit_count = 1 + Len(ret.token.body)
            /\ Len(out.digits) = Len(plain)
            /\ SubSeq(out.digits, Len(plain) - n + 1, Len(plain))
                  = ret.token.auth
            /\ op \in ChannelOriginAction => n = DefaultDigits

C2_Witness ==
    /\ pc = "serialized" /\ out.obscured
    /\ op = "UNLOCK_ACCESSORY"
    /\ out.obscured_digit_count = 2
    /\ SubSeq(out.digits, 1, 2) # SubSeq(Plain(ret.token), 1, 2)
    /\ SubSeq(out.digits, 3, 8) = ret.token.auth

(***************************************************************************)
(* C3: a builder given a symmetric key that is not 16 bytes long raises    *)
(* before anything is packed or hashed and returns no token, whatever the  *)
(* other arguments are.                                                    *)
(***************************************************************************)
C3_BadKeyRejectedFirst ==
    (Built /\ BadKey) =>
        /\ ret.err = "AssertionError"
        /\ ret.token = NoToken
        /\ ret.packed = <<>>
        /\ ret.hashed = <<>>

C3_Witness ==
    /\ pc = "built" /\ op = "LINK_ACCESSORY_MODE_3"
    /\ Len(args.accessory_sym_key) = KeyLen
    /\ Len(args.controller_sym_key) = KeyLen + 1
    /\ ~InU32(args.controller_command_count)
    /\ ret.err = "AssertionError"

(***************************************************************************)
(* C4: a builder call whose counter or identifier exceeds its field width  *)
(* (a counter above 2^32-1, an accessory id above 2^48-1) raises and        *)
(* yields no token.                                                        *)
(***************************************************************************)
C4_OverflowRejected ==
    (Built /\ Overflows) => (ret.err # "none" /\ ret.token = NoToken)

(***************************************************************************)
(* C5, as claimed: two accessory ids in 0..2^48-1 that differ and agree    *)
(* modulo 10 get the same body digit from the specific-accessory builder,  *)
(* that digit being the id modulo 10.                                      *)
(***************************************************************************)
SpecificBuilt ==
    /\ pc = "built" /\ op \in SpecificActions /\ ~BadKey
    /\ InU32(args.controller_command_count)

BodyFor(id) ==
    specific_accessory_builder(
        SpecificType(op), id, args.controller_command_count,
        args.controller_sym_key).token.body

DeviceDigit(id) == LastChars(Decimal(Le(id, 4)), 1)

FamilyTypes(cls) ==
    IF cls = "GenericControllerActionToken" THEN {GENERIC_CONTROLLER_ACTION}
    ELSE IF cls = "SpecificLinkedAccessoryToken"
    THEN {UNLOCK_ACCESSORY, UNLINK_ACCESSORY}
    ELSE IF cls = "LinkCommandToken" THEN {LINK_ACCESSORY_MODE_3}
    ELSE OriginCommandType

C6_WrongTypeRejected ==
    (pc = "constructed" /\ args.type_ \notin FamilyTypes(op)) =>
        (ret.err # "none" /\ ret.token = NoToken)

(***************************************************************************)
(* C7: for valid inputs challenge_mode_3 returns type code 9,              *)
(* body = D(mac(accessory_key, le32(accessory_command_count))) and         *)
(* auth = D(mac(controller_key,                                            *)
(*              le32(controller_command_count) ++ u8(9) ++ le32(int(body))))*)
(* with D the last 6 decimal digits of the tag's low 32 bits.              *)
(***************************************************************************)
C7_LinkChain ==
    (ValidCall /\ op = "LINK_ACCESSORY_MODE_3") =>
        LET stage1 == Le(args.accessory_command_count, 4)
            body == digits_from_siphash(
                        SipHash_2_4(args.accessory_sym_key, stage1), 6)
            stage2 == Le(args.controller_command_count, 4) \o <<9>>
                      \o Le(ParseInt(ret.token.body, <<>>), 4)
            auth == digits_from_siphash(
                        SipHash_2_4(args.controller_sym_key, stage2), 6)
        IN  /\ ret.err = "none"
            /\ ret.token.type_code = 9
            /\ ret.token.body = body
            /\ ret.token.auth = auth

C7_Witness ==
    /\ pc = "built" /\ op = "LINK_ACCESSORY_MODE_3" /\ ValidCall
    /\ args.accessory_sym_key # args.controller_sym_key
    /\ args.accessory_command_count # args.controller_command_count
    /\ ret.token.type_code = 9
    /\ Len(ret.token.body) = 6 /\ Len(ret.token.auth) = 6

(***************************************************************************)
(* C8: for a 64-bit tag t and n >= 1, digits_from_siphash returns exactly  *)
(* n decimal digits whose value is (t mod 2^32) mod 10^n.                  *)
(***************************************************************************)
C8_DigitsFromSiphash ==
    pc = "extracted" =>
        /\ Len(out.digits) = args.digits
        /\ IsDigits(out.digits)
        /\ ParseInt(out.digits, <<>>) = LowDigitsValue(args.tag, args.digits)

C8_Witness ==
    /\ pc = "extracted"
    /\ args.tag = <<239, 205, 171, 137, 103, 69, 35, 1>>
    /\ args.digits = 6
    /\ out.digits = <<7, 3, 7, 9, 6, 7>>

(***************************************************************************)
(* C9: for an accessory id in 0..2^48-1 the 11 bytes hashed by the         *)
(* specific-accessory builder are le32(counter), u8(type),                 *)
(* le16(id div 2^32), le32(id mod 2^32); the id is authority * 2^32 +      *)
(* device, and a different id with the same counter and type is hashed     *)
(* as a different byte string.                                             *)
(***************************************************************************)
MacInputFor(id) ==
    specific_accessory_builder(
        SpecificType(op), id, args.controller_command_count,
        args.controller_sym_key).hashed[1].msg

C9_MacInputCarriesFullId ==
    (ValidCall /\ op \in SpecificActions) =>
        LET id == Le(args.accessory_nexus_id, 6)
            msg == ret.hashed[1].msg
        IN  /\ ret.err = "none"
            /\ Len(ret.hashed) = 1
            /\ ret.hashed[1].key = args.controller_sym_key
            /\ msg = Le(args.controller_command_count, 4)
                     \o <<SpecificType(op).value>>
                     \o SubSeq(id, 5, 6) \o SubSeq(id, 1, 4)
            /\ SubSeq(msg, 8, 11) \o SubSeq(msg, 6, 7) = id
            /\ \A b \in NexusIds :
                  (InU48(b) /\ b # args.accessory_nexus_id)
                  => MacInputFor(b) # msg

C9_Witness ==
    /\ pc = "built" /\ ValidCall /\ op = "UNLINK_ACCESSORY"
    /\ args.accessory_nexus_id = <<255, 255, 255, 255, 255, 255>>
    /\ Len(ret.hashed[1].msg) = 11
    /\ SubSeq(ret.hashed[1].msg, 6, 7) = <<255, 255>>

(***************************************************************************)
(* C10: build dispatches each action to its builder; for valid inputs the  *)
(* unobscured type+body prefix is "000" for UNLINK_ALL_ACCESSORIES, "001"  *)
(* for UNLOCK_ALL_ACCESSORIES, "1" and one digit for UNLOCK_ACCESSORY, "2" *)
(* and one digit for UNLINK_ACCESSORY, "9" and six digits for              *)
(* LINK_ACCESSORY_MODE_3; the generic auth is the 6 digits of              *)
(* mac(controller_key, le32(count) ++ u8(0) ++ le32(action_code)).         *)
(***************************************************************************)
ActionCode(action) == IF action = "UNLINK_ALL_ACCESSORIES" THEN 0 ELSE 1

PrefixOk(prefix) ==
    CASE op = "UNLINK_ALL_ACCESSORIES" -> prefix = <<0, 0, 0>>
      [] op = "UNLOCK_ALL_ACCESSORIES" -> prefix = <<0, 0, 1>>
      [] op = "UNLOCK_ACCESSORY" ->
            Len(prefix) = 2 /\ prefix[1] = 1 /\ prefix[2] \in 0..9
      [] op = "UNLINK_ACCESSORY" ->
            Len(prefix) = 2 /\ prefix[1] = 2 /\ prefix[2] \in 0..9
      [] op = "LINK_ACCESSORY_MODE_3" ->
            Len(prefix) = 7 /\ prefix[1] = 9 /\ IsDigits(prefix)

HashedLengths ==
    IF op \in GenericActions THEN <<9>>
    ELSE IF op \in SpecificActions THEN <<11>>
    ELSE <<4, 9>>

C10_DispatchAndPrefix ==
    ValidCall =>
        /\ ret.err = "none"
        /\ PrefixOk(<<ret.token.type_code>> \o ret.token.body)
        /\ [i \in 1..Len(ret.hashed) |-> Len(ret.hashed[i].msg)] = HashedLengths
        /\ (pc = "serialized" /\ ~out.obscured) =>
              PrefixOk(SubSeq(out.digits, 1, Len(out.digits) - 6))
        /\ op \in GenericActions =>
              LET msg == Le(args.controller_command_count, 4) \o <<0>>
                         \o Le(IntToBytes(ActionCode(op)), 4)
                  auth == digits_from_siphash(
                              SipHash_2_4(args.controller_sym_key, msg), 6)
              IN  ret.token.auth = auth

C10_Witness ==
    /\ pc = "serialized" /\ ValidCall /\ ~out.obscured
    /\ op = "UNLOCK_ALL_ACCESSORIES"
    /\ SubSeq(out.digits, 1, 3) = <<0, 0, 1>>
    /\ Len(out.digits) = 9
====
